---------------------------- MODULE Spec2Model ----------------------------
(***************************************************************************)
(* Model of services/CameraController.py: the gamepad main loop (signal    *)
(* conditioning and command dispatch), the serial session with its         *)
(* reconnect path, port discovery, and the background serial reader.       *)
(*                                                                         *)
(* Numbers.  Python floats are modelled by integers:                       *)
(*   - joy_x, joy_ry hold the normalised stick value times 32768 (the raw  *)
(*     event state; the division by 32768 is exact in binary floats);      *)
(*   - joy_trigger_l, joy_trigger_r hold the trigger value times 255;      *)
(*   - curved, smoothed, scaled and "last" values are in Arduino units,    *)
(*     every product/quotient truncated toward zero to a whole unit;       *)
(*   - times are in milliseconds.                                          *)
(***************************************************************************)
EXTENDS Integers, Sequences, FiniteSets, TLC

(***************************************************************************)
(* Program constants                                                       *)
(***************************************************************************)
JOYSTICK_MAX_INT == 32768
JOYSTICK_SMOOTHING_TENTHS == 3
ZOOM_SMOOTHING_TENTHS == 6
MIN_SEND_INTERVAL == 50
JOYSTICK_SEND_THRESHOLD == 15
ZOOM_SEND_THRESHOLD == 5
JOYSTICK_DEADZONE_YAW == 1000
JOYSTICK_DEADZONE_PITCH == 1000
JOYSTICK_DEADZONE_ZOOM == 10
JOYSTICK_SCALE_YAW_TENTHS == 10
JOYSTICK_SCALE_PITCH_TENTHS == 9
JOY_MAX_VALUE == 32768
JOY_DEADZONE_PERCENT == 6
TRIGGER_MAX == 255
TRIGGER_NOISE == 5
MAX_ERRORS == 3
STARTUP_TIMEOUT_MS == 15000
RECONNECT_TIMEOUT_MS == 10000
CACHE_TEST_TIME_MS == 2000
PORT_INIT_MS == 50
RESPONSE_POLL_MS == 50
MAX_RESPONSE_MS == 1000
SCAN_OVERHEAD_MS == 500
MIN_SLICE_MS == 1000

(***************************************************************************)
(* Bounds of the model                                                     *)
(***************************************************************************)
\* wall-clock time (ms) at which the process starts; last_send_time starts at 0
StartTime == 100
\* input events the main loop processes in one behaviour
MaxEvents == 4
\* input events in behaviours that also exercise the connection
MaxConnEvents == 2
\* transport faults the environment injects on an open session
MaxFaults == 3
\* serial.Serial objects created for the global handle
MaxSessions == 3
\* candidate endpoints listed by comports()
NumPorts == 2
\* candidates listed while two threads can scan at once
ConnPorts == 1
\* input events in a run with the momentary controls
MaxKeyEvents == 3
\* tokens in a device reply
MaxReplyLen == 4
\* bytes in an inbound stream
MaxStreamLen == 4
\* tokens in a command given to send_cmd
MaxCmdLen == 3
\* input events after a command given to send_cmd
MaxSendEvents == 2
\* candidates listed in a run of the scan alone
ScanPorts == 5
\* time (ms) a blocking open of a busy port can take
OpenStallMs == 10000
\* shortest time (ms) between two input events
ShortDt == 10

NoPort == 0
NoSession == 0
Ports == 1..NumPorts
Sessions == 1..MaxSessions

(***************************************************************************)
(* Arithmetic helpers (float operations on whole units)                    *)
(***************************************************************************)
Abs(x) == IF x < 0 THEN -x ELSE x

Sign(x) == IF x >= 0 THEN 1 ELSE -1

\* Python float division/product result, truncated toward zero
TruncDiv(n, d) == IF n >= 0 THEN n \div d ELSE -((-n) \div d)

RECURSIVE ISqrtIter(_, _, _)
ISqrtIter(n, lo, hi) ==
    IF lo >= hi THEN lo
    ELSE LET mid == (lo + hi + 1) \div 2
         IN  IF mid * mid <= n THEN ISqrtIter(n, mid, hi)
                               ELSE ISqrtIter(n, lo, mid - 1)

\* floor of the square root, 0 <= n <= 2^30
ISqrt(n) == ISqrtIter(n, 0, 32768)

\* (a / m) ** 2.5 * m  for 0 <= a <= m = 32768, as a^2 * sqrt(a*m) / m^2
PowCurve(a, m) == (a * ((a * ISqrt(a * m)) \div m)) \div m

(***************************************************************************)
(* Signal Conditioner                                                      *)
(***************************************************************************)
\* event states the model feeds to the sticks and to the triggers
StickStates == {0, 900, 9000, 32767}
PitchStates == {0, 32767}
TriggerStates == {0, 255}
\* stick states of both signs and at both ends of the range, and one in between
RangeStickStates == {-32768, -28400, -9000, 0, 5000, 9000, 32767}

\* PowCurve on the stick magnitudes above, computed once
PowCurveMemo ==
    [a \in {Abs(v) : v \in StickStates \cup PitchStates \cup RangeStickStates}
       |-> PowCurve(a, JOYSTICK_MAX_INT)]

\* abs_normalized ** JOYSTICK_CURVE_EXPONENT * max_value
Curved(a, max_value) ==
    IF a \in DOMAIN PowCurveMemo /\ max_value = JOYSTICK_MAX_INT
    THEN PowCurveMemo[a] ELSE PowCurve(a, max_value)

\* a mutant of apply_joystick_curve that forgets the deadzone
apply_joystick_curve_nodeadzone(value, max_value, deadzone) ==
    Sign(value) * Curved(Abs(value), max_value)

\* a mutant of apply_joystick_curve whose deadzone test forgets abs()
apply_joystick_curve_onesided(value, max_value, deadzone) ==
    IF value < deadzone THEN 0
    ELSE Sign(value) * Curved(Abs(value), max_value)

apply_joystick_curve(value, max_value, deadzone) ==
    IF Abs(value) < deadzone THEN 0
    ELSE Sign(value) * Curved(Abs(value), max_value)

\* ABS_X / ABS_RY: the stored stick value (times 32768) after an event
StickValue(old, state) ==
    IF state * 100 < JOY_MAX_VALUE * JOY_DEADZONE_PERCENT
       /\ state * 100 > -(JOY_MAX_VALUE * JOY_DEADZONE_PERCENT) THEN 0
    ELSE IF state * 100 < -(JOY_MAX_VALUE * JOY_DEADZONE_PERCENT) THEN state
    ELSE IF state * 100 > JOY_MAX_VALUE * JOY_DEADZONE_PERCENT THEN state
    ELSE old

\* ABS_Z / ABS_RZ: the stored trigger value (times 255) after an event
TriggerValue(state) == IF state < TRIGGER_NOISE THEN 0 ELSE state

\* joystick_zoom_raw_scaled from the two triggers
ZoomRawScaled(trig_r, trig_l) ==
    LET trigger_diff == trig_r - trig_l
    IN  IF Abs(trigger_diff) * JOYSTICK_MAX_INT < JOYSTICK_DEADZONE_ZOOM * TRIGGER_MAX
        THEN 0
        ELSE TruncDiv(trigger_diff * JOYSTICK_MAX_INT, TRIGGER_MAX)

\* a mutant of Smooth that never resets the accumulator
SmoothNoReset(alpha, curved, deadzone, prev) ==
    TruncDiv(alpha * curved + (10 - alpha) * prev, 10)

\* a mutant of Smooth that adds the new sample to the whole of the old accumulator
SmoothNoDecay(alpha, curved, deadzone, prev) ==
    IF Abs(curved) < deadzone THEN 0
    ELSE TruncDiv(alpha * curved + 10 * prev, 10)

\* exponential smoothing with the deadzone reset (alpha in tenths)
Smooth(alpha, curved, deadzone, prev) ==
    IF Abs(curved) < deadzone THEN 0
    ELSE TruncDiv(alpha * curved + (10 - alpha) * prev, 10)

Scale(value, tenths) == TruncDiv(value * tenths, 10)


(***************************************************************************)
(* State                                                                   *)
(***************************************************************************)
VARIABLES
    \* main loop: stored inputs (module-level globals)
    joy_x, joy_ry, joy_trigger_l, joy_trigger_r,
    joystick_yaw_smoothed, joystick_pitch_smoothed, joystick_zoom_smoothed,
    joystick_yaw_last, joystick_pitch_last, joystick_zoom_last,
    last_send_time,
    \* values computed by the latest Absolute event (also module-level globals):
    \* joystick_*_scaled, *_entered_deadzone, should_send, current_time
    loop,
    \* momentary controls
    joy_back, joy_start, joy_bumper_l, joy_bumper_r,
    arduino_back_last, arduino_start_last, arduino_bumper_l_last,
    arduino_bumper_r_last, arduino_selected_pos,
    \* the latest event taken from get_gamepad(), and the send calls it queued
    event, sendq,
    \* connection globals
    arduino, ARDUINO_ENABLE_SERIAL, ARDUINO_PORT, port_cache,
    \* serial.Serial objects made for the handle: port of each, and the open ones
    ser_port, ser_open,
    \* per thread: position, running detect_esp32_port call, object just constructed
    pc, det, new_serial,
    \* reader thread locals
    consecutive_errors, rd_handle,
    \* environment: wall clock (ms)
    now,
    \* history (not program state)
    nEvents, nFaults, prev, tx, hist,
    \* one call of test_port: its position, locals and trial connection
    tp,
    \* the reader's line buffer, the bytes still to arrive, and what it has printed
    rd

axisVars == <<joy_x, joy_ry, joy_trigger_l, joy_trigger_r,
              joystick_yaw_smoothed, joystick_pitch_smoothed, joystick_zoom_smoothed,
              loop>>
lastVars == <<joystick_yaw_last, joystick_pitch_last, joystick_zoom_last, last_send_time>>
btnVars  == <<joy_back, joy_start, joy_bumper_l, joy_bumper_r,
              arduino_back_last, arduino_start_last, arduino_bumper_l_last,
              arduino_bumper_r_last, arduino_selected_pos>>
inputVars == <<event, now, nEvents, prev>>
connVars == <<arduino, ARDUINO_ENABLE_SERIAL, ARDUINO_PORT, port_cache, ser_port, ser_open>>
readerVars == <<consecutive_errors, rd_handle>>

progVars == <<axisVars, lastVars, btnVars, inputVars, sendq, connVars, pc, det,
              new_serial, readerVars, nFaults, tx, hist>>

vars == <<progVars, tp, rd>>

Threads == {"main", "reader"}


(***************************************************************************)
(* Main loop: one input event                                              *)
(***************************************************************************)
KeyEv(code, state) == [ev_type |-> "Key", code |-> code, state |-> state]
AbsEv(code, state) == [ev_type |-> "Absolute", code |-> code, state |-> state]

\* the bytes literal a call site of the main loop passes to send_cmd:
\* b"HOME\n", b"STOP\n", f"SAVE {preset_idx}\n", f"GOTO {preset_idx}\n"
CmdLiteral(name, arg) ==
    IF name \in {"SAVE", "GOTO"} THEN <<name, " ", ToString(arg), "\n">>
    ELSE <<name, "\n">>

\* a queued call of send_cmd / send_joystick_values
SendCmdCall(name, arg) ==
    [fn |-> "send_cmd", name |-> name, arg |-> arg, yaw |-> 0, pitch |-> 0, zoom |-> 0,
     cmd |-> CmdLiteral(name, arg)]
SendJoyCall(yaw, pitch, zoom) ==
    [fn |-> "send_joystick_values", name |-> "j", arg |-> 0,
     yaw |-> yaw, pitch |-> pitch, zoom |-> zoom, cmd |-> <<>>]

\* a mutant of ShouldSend without the threshold gate
ShouldSendNoThreshold(time_since_last_send, yaw_scaled, pitch_scaled, zoom_scaled, entered) ==
    time_since_last_send >= MIN_SEND_INTERVAL \/ entered

\* a mutant of ShouldSend whose threshold gate looks at the yaw axis only
ShouldSendYawOnly(time_since_last_send, yaw_scaled, pitch_scaled, zoom_scaled, entered) ==
    \/ /\ time_since_last_send >= MIN_SEND_INTERVAL
       /\ Abs(yaw_scaled - joystick_yaw_last) > JOYSTICK_SEND_THRESHOLD
    \/ entered

\* a mutant of ShouldSend without the rate limiter
ShouldSendNoRateLimit(time_since_last_send, yaw_scaled, pitch_scaled, zoom_scaled, entered) ==
    \/ Abs(yaw_scaled - joystick_yaw_last) > JOYSTICK_SEND_THRESHOLD
    \/ Abs(pitch_scaled - joystick_pitch_last) > JOYSTICK_SEND_THRESHOLD
    \/ Abs(zoom_scaled - joystick_zoom_last) > ZOOM_SEND_THRESHOLD
    \/ entered

\* should_send of the main loop
ShouldSend(time_since_last_send, yaw_scaled, pitch_scaled, zoom_scaled, entered) ==
    \/ /\ time_since_last_send >= MIN_SEND_INTERVAL
       /\ \/ Abs(yaw_scaled - joystick_yaw_last) > JOYSTICK_SEND_THRESHOLD
          \/ Abs(pitch_scaled - joystick_pitch_last) > JOYSTICK_SEND_THRESHOLD
          \/ Abs(zoom_scaled - joystick_zoom_last) > ZOOM_SEND_THRESHOLD
    \/ entered

\* a deadzone entry as the main loop detects it: last sent value outside, new value inside
EnteredDeadzone(last, scaled, deadzone_scaled) ==
    ~(Abs(last) < deadzone_scaled) /\ Abs(scaled) < deadzone_scaled

\* everything the "Absolute" branch computes from the stored inputs jx, jry, tl, tr
Conditioned(jx, jry, tl, tr, current_time) ==
    LET joystick_yaw_raw == jx
        joystick_pitch_raw == jry
        joystick_zoom_raw_scaled == ZoomRawScaled(tr, tl)
        joystick_yaw_curved ==
            apply_joystick_curve(joystick_yaw_raw, JOYSTICK_MAX_INT, JOYSTICK_DEADZONE_YAW)
        joystick_pitch_curved ==
            apply_joystick_curve(joystick_pitch_raw, JOYSTICK_MAX_INT, JOYSTICK_DEADZONE_PITCH)
        yaw_sm == Smooth(JOYSTICK_SMOOTHING_TENTHS, joystick_yaw_curved,
                         JOYSTICK_DEADZONE_YAW, joystick_yaw_smoothed)
        pitch_sm == Smooth(JOYSTICK_SMOOTHING_TENTHS, joystick_pitch_curved,
                           JOYSTICK_DEADZONE_PITCH, joystick_pitch_smoothed)
        zoom_sm == Smooth(ZOOM_SMOOTHING_TENTHS, joystick_zoom_raw_scaled,
                          JOYSTICK_DEADZONE_ZOOM, joystick_zoom_smoothed)
        yaw_scaled == Scale(yaw_sm, JOYSTICK_SCALE_YAW_TENTHS)
        pitch_scaled == Scale(pitch_sm, JOYSTICK_SCALE_PITCH_TENTHS)
        zoom_scaled == zoom_sm
        yaw_deadzone_scaled == Scale(JOYSTICK_DEADZONE_YAW, JOYSTICK_SCALE_YAW_TENTHS)
        pitch_deadzone_scaled == Scale(JOYSTICK_DEADZONE_PITCH, JOYSTICK_SCALE_PITCH_TENTHS)
        zoom_deadzone_scaled == JOYSTICK_DEADZONE_ZOOM
        yaw_entered == EnteredDeadzone(joystick_yaw_last, yaw_scaled, yaw_deadzone_scaled)
        pitch_entered == EnteredDeadzone(joystick_pitch_last, pitch_scaled, pitch_deadzone_scaled)
        zoom_entered == EnteredDeadzone(joystick_zoom_last, zoom_scaled, zoom_deadzone_scaled)
        entered == yaw_entered \/ pitch_entered \/ zoom_entered
    IN  [yaw_smoothed |-> yaw_sm, pitch_smoothed |-> pitch_sm, zoom_smoothed |-> zoom_sm,
         yaw_scaled |-> IF yaw_entered THEN 0 ELSE yaw_scaled,
         pitch_scaled |-> IF pitch_entered THEN 0 ELSE pitch_scaled,
         zoom_scaled |-> IF zoom_entered THEN 0 ELSE zoom_scaled,
         yaw_entered |-> yaw_entered, pitch_entered |-> pitch_entered,
         zoom_entered |-> zoom_entered,
         should_send |-> ShouldSend(current_time - last_send_time,
                                    yaw_scaled, pitch_scaled, zoom_scaled, entered),
         current_time |-> current_time]

\* what history keeps of the state before an event
Before ==
    [yaw_raw |-> joy_x, pitch_raw |-> joy_ry,
     zoom_raw |-> ZoomRawScaled(joy_trigger_r, joy_trigger_l),
     yaw_smoothed |-> joystick_yaw_smoothed, pitch_smoothed |-> joystick_pitch_smoothed,
     zoom_smoothed |-> joystick_zoom_smoothed,
     yaw_last |-> joystick_yaw_last, pitch_last |-> joystick_pitch_last,
     zoom_last |-> joystick_zoom_last, last_send_time |-> last_send_time,
     back_last |-> arduino_back_last, start_last |-> arduino_start_last,
     bumper_r_last |-> arduino_bumper_r_last, bumper_l_last |-> arduino_bumper_l_last,
     tx_count |-> tx.count]

\* a mutant of SelectedPos that ignores the preset-select buttons
SelectedPosKeep(code, old) == old

\* lines 466-473: arduino_selected_pos after a Key event with this code
SelectedPos(code, old) ==
    IF code = "BTN_SOUTH" THEN 1
    ELSE IF code = "BTN_EAST" THEN 2
    ELSE IF code = "BTN_NORTH" THEN 3
    ELSE IF code = "BTN_WEST" THEN 4
    ELSE old

\* the "Key" branch of the loop body
HandleKey(e) ==
    LET bumper_l == IF e.code = "BTN_TL" THEN e.state ELSE joy_bumper_l
        bumper_r == IF e.code = "BTN_TR" THEN e.state ELSE joy_bumper_r
        back == IF e.code = "BTN_SELECT" THEN e.state ELSE joy_back
        start == IF e.code = "BTN_START" THEN e.state ELSE joy_start
        pos == SelectedPos(e.code, arduino_selected_pos)
    IN  /\ joy_bumper_l' = bumper_l
        /\ joy_bumper_r' = bumper_r
        /\ joy_back' = back
        /\ joy_start' = start
        /\ arduino_selected_pos' = pos
        /\ arduino_back_last' = back
        /\ arduino_start_last' = start
        /\ arduino_bumper_r_last' = bumper_r
        /\ arduino_bumper_l_last' = bumper_l
        /\ sendq' = (IF back # arduino_back_last
                        THEN <<SendCmdCall("HOME", 0)>> ELSE <<>>)
                    \o (IF start # arduino_start_last
                        THEN <<SendCmdCall("STOP", 0)>> ELSE <<>>)
                    \o (IF bumper_r # arduino_bumper_r_last
                        THEN <<SendCmdCall("SAVE", pos)>> ELSE <<>>)
                    \o (IF bumper_l # arduino_bumper_l_last
                        THEN <<SendCmdCall("GOTO", pos)>> ELSE <<>>)
        /\ UNCHANGED axisVars

\* the "Absolute" branch of the loop body, up to the decision to send
HandleAbsolute(e, current_time) ==
    LET jx == IF e.code = "ABS_X" THEN StickValue(joy_x, e.state) ELSE joy_x
        jry == IF e.code = "ABS_RY" THEN StickValue(joy_ry, e.state) ELSE joy_ry
        tl == IF e.code = "ABS_Z" THEN TriggerValue(e.state) ELSE joy_trigger_l
        tr == IF e.code = "ABS_RZ" THEN TriggerValue(e.state) ELSE joy_trigger_r
        c == Conditioned(jx, jry, tl, tr, current_time)
    IN  /\ joy_x' = jx
        /\ joy_ry' = jry
        /\ joy_trigger_l' = tl
        /\ joy_trigger_r' = tr
        /\ joystick_yaw_smoothed' = c.yaw_smoothed
        /\ joystick_pitch_smoothed' = c.pitch_smoothed
        /\ joystick_zoom_smoothed' = c.zoom_smoothed
        /\ loop' = [yaw_scaled |-> c.yaw_scaled, pitch_scaled |-> c.pitch_scaled,
                    zoom_scaled |-> c.zoom_scaled, yaw_entered |-> c.yaw_entered,
                    pitch_entered |-> c.pitch_entered, zoom_entered |-> c.zoom_entered,
                    should_send |-> c.should_send, current_time |-> c.current_time]
        /\ sendq' = IF c.should_send
                    THEN <<SendJoyCall(c.yaw_scaled, c.pitch_scaled, c.zoom_scaled)>>
                    ELSE <<>>
        /\ UNCHANGED btnVars

\* the codes of the four preset-select buttons
PresetButtons == {"BTN_SOUTH", "BTN_EAST", "BTN_NORTH", "BTN_WEST"}

\* get_gamepad() delivers event e, dt ms after the previous one
GetEvent(e, dt, maxEvents) ==
    /\ pc["main"] = "idle"
    /\ nEvents < maxEvents
    /\ event' = e
    /\ now' = now + dt
    /\ nEvents' = nEvents + 1
    /\ prev' = Before
    /\ IF e.ev_type = "Key" THEN HandleKey(e) ELSE HandleAbsolute(e, now + dt)
    /\ pc' = [pc EXCEPT !["main"] = IF sendq' = <<>> THEN "idle" ELSE "send_check"]
    /\ hist' = [hist EXCEPT !.last_select =
                   IF e.ev_type = "Key" /\ e.code \in PresetButtons THEN e.code
                   ELSE hist.last_select]
    /\ UNCHANGED <<tp, rd, lastVars, connVars, det, new_serial, readerVars, nFaults, tx>>


(***************************************************************************)
(* Serial objects                                                          *)
(***************************************************************************)
Max(a, b) == IF a >= b THEN a ELSE b
Min(a, b) == IF a <= b THEN a ELSE b

IsOpen(h) == h # NoSession /\ h \in ser_open

\* rebinding the global handle drops the last reference to the object it held;
\* io.IOBase.__del__ closes a dropped object that is still open
OpenAfterRebind(open, old, new) == IF old # new THEN open \ {old} ELSE open

(***************************************************************************)
(* Device Locator: test_port and detect_esp32_port                         *)
(***************************************************************************)
IdleDet ==
    [caller |-> "none", force_rescan |-> FALSE, timeout |-> 0, elapsed |-> 0,
     ports |-> <<>>, idx |-> 0, ports_remaining |-> 0, probed |-> <<>>,
     cached |-> NoPort, enumerated |-> FALSE, result |-> NoPort, outcome |-> "none"]

\* test_port(port_path, max_test_time) when the environment behaves as `env`:
\*   "noopen"  serial.Serial raises (busy or missing port)
\*   "stall"   the open blocks for OpenStallMs
\*   "silent"  the port opens and nothing qualifying arrives
\*   "pass"    the port opens and a qualifying STATUS line arrives
TestPort(port_path, max_test_time, env) ==
    LET opened == (IF env = "stall" THEN OpenStallMs ELSE 0) + PORT_INIT_MS
        max_response_time == Min(MAX_RESPONSE_MS, max_test_time - opened)
    IN  IF env = "noopen" THEN [ok |-> FALSE, dur |-> 0]
        ELSE IF opened >= max_test_time THEN [ok |-> FALSE, dur |-> opened]
        ELSE IF env = "pass" /\ RESPONSE_POLL_MS < max_response_time
             THEN [ok |-> TRUE, dur |-> opened + RESPONSE_POLL_MS]
        ELSE [ok |-> FALSE, dur |-> opened + max_response_time]

\* test_port gets as far as its write of b"STATUS\n" (line 159): the port opened and
\* the time check of line 147 passed
ProbeWrites(max_test_time, env) ==
    /\ env # "noopen"
    /\ (IF env = "stall" THEN OpenStallMs ELSE 0) + PORT_INIT_MS < max_test_time

\* the time slice of the next candidate
MaxTimePerPort(timeout_seconds, elapsed, ports_remaining) ==
    Max(MIN_SLICE_MS, (timeout_seconds - elapsed - SCAN_OVERHEAD_MS) \div ports_remaining)

\* control returns from detect_esp32_port to its caller
DetReturnPc(d) == IF d.caller = "startup" THEN "startup_connect" ELSE "rc_if"

\* a mutant of CacheAfterProbe that stores the candidate before its probe result is known
CacheAfterProbeAlways(cache, port_path, probe) == port_path

\* lines 253-256: save_cached_port(port_path) runs only when test_port returned True
CacheAfterProbe(cache, port_path, probe) == IF probe.ok THEN port_path ELSE cache

\* a mutant of DetCacheHit that never takes the cached port
DetCacheHitNever(cached_port, probe) == FALSE

\* a mutant of DetCacheHit that trusts the cache without probing it
DetCacheHitTrusted(cached_port, probe) == cached_port # NoPort

\* whether the cached port is returned: only after it passed test_port
DetCacheHit(cached_port, probe) == cached_port # NoPort /\ probe.ok

\* a mutant of CacheAfterCacheProbe that keeps the cache file after a failed probe
CacheAfterCacheProbeKeeps(cache, hit) == cache

\* lines 218-223: the cache file is left alone when the cached port passed, and
\* clear_cached_port() runs when it failed
CacheAfterCacheProbe(cache, hit) == IF hit THEN cache ELSE NoPort

\* history of one call of test_port made by detect_esp32_port: the port, the time of
\* the call on the clock of detect_esp32_port, the max_test_time it was given, how the
\* port behaved, and what the call did
ProbeRecord(port_path, how, start, max_test_time, env, probe) ==
    [port |-> port_path, ok |-> probe.ok, how |-> how, start |-> start,
     slice |-> max_test_time, dur |-> probe.dur, env |-> env,
     wrote |-> ProbeWrites(max_test_time, env)]

\* detect_esp32_port is entered by thread t
DetBegin(t, caller, force_rescan, timeout_seconds) ==
    det' = [det EXCEPT ![t] =
              [IdleDet EXCEPT !.caller = caller, !.force_rescan = force_rescan,
                              !.timeout = timeout_seconds]]

\* lines 208-223: the cached port is loaded and, when present, probed
DetCache(t, envs) ==
    /\ pc[t] = "det_cache"
    /\ \E env \in envs :
         LET cached_port == port_cache
             probe == IF cached_port = NoPort THEN [ok |-> FALSE, dur |-> 0]
                      ELSE TestPort(cached_port, CACHE_TEST_TIME_MS, env)
             hit == DetCacheHit(cached_port, probe)
         IN  /\ det' = [det EXCEPT ![t].cached = cached_port,
                                   ![t].elapsed = probe.dur,
                                   ![t].probed = IF cached_port = NoPort THEN <<>>
                                                 ELSE <<ProbeRecord(cached_port, "cache",
                                                            0, CACHE_TEST_TIME_MS,
                                                            env, probe)>>,
                                   ![t].result = IF hit THEN cached_port ELSE NoPort,
                                   ![t].outcome = IF hit THEN "cache" ELSE "none"]
             /\ port_cache' = CacheAfterCacheProbe(port_cache, hit)
             /\ pc' = [pc EXCEPT ![t] = IF hit THEN DetReturnPc(det[t]) ELSE "det_enum"]
    /\ UNCHANGED <<tp, rd, axisVars, lastVars, btnVars, inputVars, sendq, arduino,
                   ARDUINO_ENABLE_SERIAL, ARDUINO_PORT, ser_port, ser_open,
                   new_serial, readerVars, nFaults, tx, hist>>

\* lines 225-235: comports() lists the first n candidates
DetEnum(t, maxList) ==
    /\ pc[t] = "det_enum"
    /\ \E n \in 0..maxList :
         LET ports == [i \in 1..n |-> i]
             gone == det[t].elapsed >= det[t].timeout
         IN  /\ det' = [det EXCEPT ![t].ports = ports, ![t].idx = 1,
                                   ![t].enumerated = TRUE,
                                   ![t].ports_remaining = n,
                                   ![t].outcome = IF n = 0 THEN "noports"
                                                  ELSE IF gone THEN "timeout" ELSE "none"]
             /\ pc' = [pc EXCEPT ![t] = IF n = 0 \/ gone THEN DetReturnPc(det[t])
                                        ELSE "det_probe"]
    /\ UNCHANGED <<tp, rd, axisVars, lastVars, btnVars, inputVars, sendq, connVars,
                   new_serial, readerVars, nFaults, tx, hist>>

\* a mutant of ScanNext that gives up at the first candidate that fails
ScanNextAbortOnFailure(d, probe) == IF probe.ok THEN "found" ELSE "notfound"

\* a mutant of ScanNext that goes on scanning after a candidate passed
ScanNextKeepGoing(d, probe) ==
    IF d.idx + 1 > Len(d.ports) THEN (IF probe.ok THEN "found" ELSE "notfound")
    ELSE IF d.elapsed + probe.dur >= d.timeout THEN "timeout"
    ELSE "next"

\* lines 236-263: what the loop does after the probe of candidate d.idx
ScanNext(d, probe) ==
    IF probe.ok THEN "found"
    ELSE IF d.idx + 1 > Len(d.ports) THEN "notfound"
    ELSE IF d.elapsed + probe.dur >= d.timeout THEN "timeout"
    ELSE "next"

\* lines 236-263: one iteration of the scan loop
DetProbe(t, envs) ==
    /\ pc[t] = "det_probe"
    /\ \E env \in envs :
         LET d == det[t]
             port_path == d.ports[d.idx]
             max_time_per_port == MaxTimePerPort(d.timeout, d.elapsed, d.ports_remaining)
             probe == TestPort(port_path, max_time_per_port, env)
             step == ScanNext(d, probe)
         IN  /\ det' = [det EXCEPT ![t].ports_remaining = d.ports_remaining - 1,
                                   ![t].elapsed = d.elapsed + probe.dur,
                                   ![t].probed = Append(d.probed,
                                                   ProbeRecord(port_path, "scan", d.elapsed,
                                                       max_time_per_port, env, probe)),
                                   ![t].idx = d.idx + 1,
                                   ![t].result = IF probe.ok THEN port_path ELSE d.result,
                                   ![t].outcome = IF step = "next" THEN "none" ELSE step]
             /\ port_cache' = CacheAfterProbe(port_cache, port_path, probe)
             /\ pc' = [pc EXCEPT ![t] = IF step = "next" THEN "det_probe"
                                        ELSE DetReturnPc(d)]
             /\ hist' = [hist EXCEPT !.rd_wrote =
                            hist.rd_wrote
                            \/ (t = "reader" /\ ProbeWrites(max_time_per_port, env))]
    /\ UNCHANGED <<tp, rd, axisVars, lastVars, btnVars, inputVars, sendq, arduino,
                   ARDUINO_ENABLE_SERIAL, ARDUINO_PORT, ser_port, ser_open,
                   new_serial, readerVars, nFaults, tx>>


(***************************************************************************)
(* Startup (module level, lines 265-285 and 411-416)                       *)
(***************************************************************************)
\* history: the endpoint a finished detect call returned after it passed the
\* handshake in that call (NoPort when it returned none, or one that did not pass)
Validated(d) ==
    IF d.result # NoPort
       /\ \E i \in 1..Len(d.probed) : d.probed[i].port = d.result /\ d.probed[i].ok
    THEN d.result ELSE NoPort

\* ARDUINO_PORT = detect_esp32_port(timeout_seconds=15)
Startup ==
    /\ pc["main"] = "startup"
    /\ DetBegin("main", "startup", FALSE, STARTUP_TIMEOUT_MS)
    /\ pc' = [pc EXCEPT !["main"] = "det_cache"]
    /\ UNCHANGED <<tp, rd, axisVars, lastVars, btnVars, inputVars, sendq, connVars,
                   new_serial, readerVars, nFaults, tx, hist>>

\* a mutant of StartupOpens that goes on without a located port
StartupOpensAnyway(port, opens) == opens

\* lines 272-285: the session exists only if a port was located and serial.Serial did
\* not raise; otherwise sys.exit(1)
StartupOpens(port, opens) == port # NoPort /\ opens

\* the located port is opened and the reader thread started, or the process exits
StartupConnect ==
    /\ pc["main"] = "startup_connect"
    /\ ARDUINO_PORT' = det["main"].result
    /\ \E opens \in BOOLEAN :
         IF StartupOpens(det["main"].result, opens) /\ Len(ser_port) < MaxSessions
         THEN /\ ser_port' = Append(ser_port, det["main"].result)
              /\ ser_open' = ser_open \cup {Len(ser_port) + 1}
              /\ arduino' = Len(ser_port) + 1
              /\ pc' = [pc EXCEPT !["main"] = "idle", !["reader"] = "rd_entry"]
         ELSE /\ pc' = [pc EXCEPT !["main"] = "exited"]
              /\ UNCHANGED <<ser_port, ser_open, arduino>>
    /\ hist' = [hist EXCEPT !.validated = Validated(det["main"]),
                            !.bad_open = pc'["main"] = "idle"
                                         /\ Validated(det["main"]) # det["main"].result]
    /\ det' = [det EXCEPT !["main"] = IdleDet]
    /\ UNCHANGED <<tp, rd, axisVars, lastVars, btnVars, inputVars, sendq,
                   ARDUINO_ENABLE_SERIAL, port_cache, new_serial, readerVars,
                   nFaults, tx>>

(***************************************************************************)
(* send_cmd / send_joystick_values, called by the main loop                *)
(***************************************************************************)
\* history of a call of reconnect_serial being started
RcStarted(faults) ==
    [hist EXCEPT !.rc_starts = hist.rc_starts + 1,
                 !.first_rc_faults = IF hist.rc_starts = 0 THEN faults
                                     ELSE hist.first_rc_faults,
                 !.rc_after_fail = hist.rc_after_fail \/ hist.rc_failed]

\* a mutant of SendGuard that ignores the enable flag
SendGuardIgnoresEnable == arduino # NoSession

\* "if ARDUINO_ENABLE_SERIAL and arduino is not None"
SendGuard == ARDUINO_ENABLE_SERIAL /\ arduino # NoSession

\* "cmd.endswith(b'\n')"
EndsWithNewline(cmd) == cmd # <<>> /\ cmd[Len(cmd)] = "\n"

\* a mutant of EnsureNewline that appends a newline to every command
EnsureNewlineAlways(cmd) == Append(cmd, "\n")

\* send_cmd, lines 293-294: "if not cmd.endswith(b'\n'): cmd = cmd + b'\n'"
EnsureNewline(cmd) == IF ~EndsWithNewline(cmd) THEN Append(cmd, "\n") ELSE cmd

\* send_joystick_values, line 308: f"j,{int(yaw)},{int(pitch)},{int(zoom)}\n"
JoyFrame(yaw, pitch, zoom) ==
    <<"j", ",", ToString(yaw), ",", ToString(pitch), ",", ToString(zoom), "\n">>

\* the bytes a send call hands to arduino.write
WrittenBytes(call) ==
    IF call.fn = "send_cmd" THEN EnsureNewline(call.cmd)
    ELSE JoyFrame(call.yaw, call.pitch, call.zoom)

MainSendCheck ==
    /\ pc["main"] = "send_check"
    /\ pc' = [pc EXCEPT !["main"] = IF SendGuard THEN "write" ELSE "after_send"]
    /\ hist' = [hist EXCEPT !.late_call = hist.rc_failed]
    /\ UNCHANGED <<tp, rd, axisVars, lastVars, btnVars, inputVars, sendq, connVars, det,
                   new_serial, readerVars, nFaults, tx>>

\* what arduino.write(cmd) can do on the handle as it is now
WriteOutcomes(faulty) ==
    IF IsOpen(arduino)
    THEN {"ok"} \cup (IF faulty /\ nFaults < MaxFaults THEN {"fault"} ELSE {})
    ELSE {"error"}

\* arduino.write(cmd): bytes go out, or the exception handler starts reconnect_serial
MainWrite(faulty) ==
    /\ pc["main"] = "write"
    /\ \E outcome \in WriteOutcomes(faulty) :
         LET call == Head(sendq)
         IN  IF outcome = "ok"
             THEN /\ tx' = [kind |-> call.fn, name |-> call.name, arg |-> call.arg,
                            yaw |-> call.yaw, pitch |-> call.pitch, zoom |-> call.zoom,
                            bytes |-> WrittenBytes(call),
                            session |-> arduino, count |-> tx.count + 1,
                            ev |-> nEvents, time |-> now,
                            joy_time |-> IF call.fn = "send_joystick_values"
                                         THEN now ELSE tx.joy_time,
                            joy_gap |-> IF call.fn = "send_joystick_values"
                                           /\ tx.joy_time >= 0
                                        THEN now - tx.joy_time
                                        ELSE IF call.fn = "send_joystick_values"
                                        THEN MIN_SEND_INTERVAL ELSE tx.joy_gap,
                            joy_edge |-> IF call.fn = "send_joystick_values"
                                         THEN loop.yaw_entered \/ loop.pitch_entered
                                              \/ loop.zoom_entered
                                         ELSE tx.joy_edge,
                            late |-> tx.late \/ hist.late_call]
                  /\ pc' = [pc EXCEPT !["main"] = "after_send"]
                  /\ UNCHANGED <<nFaults, hist>>
             ELSE /\ pc' = [pc EXCEPT !["main"] = "rc_check"]
                  /\ nFaults' = IF outcome = "fault" THEN nFaults + 1 ELSE nFaults
                  /\ hist' = RcStarted(nFaults')
                  /\ UNCHANGED tx
    /\ UNCHANGED <<tp, rd, axisVars, lastVars, btnVars, inputVars, sendq, connVars, det,
                   new_serial, readerVars>>

\* a mutant of UpdatesLast that treats every send like a velocity send
UpdatesLastAlways(call) == TRUE

\* lines 693-700: only the velocity branch stores the last values and last_send_time
UpdatesLast(call) == call.fn = "send_joystick_values"

\* the call returned: lines 697-700 after send_joystick_values, then the next call
MainAfterSend ==
    /\ pc["main"] = "after_send"
    /\ IF UpdatesLast(Head(sendq))
       THEN /\ joystick_yaw_last' = loop.yaw_scaled
            /\ joystick_pitch_last' = loop.pitch_scaled
            /\ joystick_zoom_last' = loop.zoom_scaled
            /\ last_send_time' = loop.current_time
       ELSE UNCHANGED lastVars
    /\ sendq' = Tail(sendq)
    /\ pc' = [pc EXCEPT !["main"] = IF Tail(sendq) = <<>> THEN "idle" ELSE "send_check"]
    /\ UNCHANGED <<tp, rd, axisVars, btnVars, inputVars, connVars, det, new_serial,
                   readerVars, nFaults, tx, hist>>


(***************************************************************************)
(* reconnect_serial, run by the thread whose I/O failed                    *)
(***************************************************************************)
\* "if arduino is not None:"
RcCheck(t) ==
    /\ pc[t] = "rc_check"
    /\ pc' = [pc EXCEPT ![t] = IF arduino # NoSession THEN "rc_close" ELSE "rc_clear"]
    /\ UNCHANGED <<tp, rd, axisVars, lastVars, btnVars, inputVars, sendq, connVars, det,
                   new_serial, readerVars, nFaults, tx, hist>>

\* "try: arduino.close() except: pass" (on None the AttributeError is swallowed)
RcClose(t) ==
    /\ pc[t] = "rc_close"
    /\ ser_open' = ser_open \ {arduino}
    /\ pc' = [pc EXCEPT ![t] = "rc_none"]
    /\ hist' = [hist EXCEPT !.handle_by = hist.handle_by \cup {t}]
    /\ UNCHANGED <<tp, rd, axisVars, lastVars, btnVars, inputVars, sendq, arduino,
                   ARDUINO_ENABLE_SERIAL, ARDUINO_PORT, port_cache, ser_port, det,
                   new_serial, readerVars, nFaults, tx>>

\* "arduino = None"
RcNone(t) ==
    /\ pc[t] = "rc_none"
    /\ arduino' = NoSession
    /\ ser_open' = OpenAfterRebind(ser_open, arduino, NoSession)
    /\ pc' = [pc EXCEPT ![t] = "rc_clear"]
    /\ hist' = [hist EXCEPT !.handle_by = hist.handle_by \cup {t}]
    /\ UNCHANGED <<tp, rd, axisVars, lastVars, btnVars, inputVars, sendq,
                   ARDUINO_ENABLE_SERIAL, ARDUINO_PORT, port_cache, ser_port, det,
                   new_serial, readerVars, nFaults, tx>>

\* "clear_cached_port()" and the entry of detect_esp32_port(force_rescan=True, 10)
RcClear(t) ==
    /\ pc[t] = "rc_clear"
    /\ port_cache' = NoPort
    /\ DetBegin(t, "reconnect", TRUE, RECONNECT_TIMEOUT_MS)
    /\ pc' = [pc EXCEPT ![t] = "det_enum"]
    /\ UNCHANGED <<tp, rd, axisVars, lastVars, btnVars, inputVars, sendq, arduino,
                   ARDUINO_ENABLE_SERIAL, ARDUINO_PORT, ser_port, ser_open,
                   new_serial, readerVars, nFaults, tx, hist>>

\* reconnect_serial returns `ok` to its caller: send_* returns to the main loop,
\* the reader resets its counter (True) or leaves its loop (False)
RcReturn(t, ok) ==
    /\ pc' = [pc EXCEPT ![t] = IF t = "main" THEN "after_send"
                               ELSE IF ok THEN "rd_poll" ELSE "rd_exit"]
    /\ consecutive_errors' = IF t = "reader" /\ ok THEN 0 ELSE consecutive_errors

\* a mutant of DisableOnFailure that leaves transmission enabled
DisableOnFailureForgets(enabled) == enabled

\* "ARDUINO_ENABLE_SERIAL = False" on both failure paths
DisableOnFailure(enabled) == FALSE

\* "ARDUINO_PORT = detect_esp32_port(...)" and "if ARDUINO_PORT:"
RcIf(t) ==
    /\ pc[t] = "rc_if"
    /\ ARDUINO_PORT' = det[t].result
    /\ det' = [det EXCEPT ![t] = IdleDet]
    /\ IF det[t].result # NoPort
       THEN /\ pc' = [pc EXCEPT ![t] = "rc_open"]
            /\ hist' = [hist EXCEPT !.validated = Validated(det[t])]
            /\ UNCHANGED <<ARDUINO_ENABLE_SERIAL, consecutive_errors>>
       ELSE /\ ARDUINO_ENABLE_SERIAL' = DisableOnFailure(ARDUINO_ENABLE_SERIAL)
            /\ hist' = [hist EXCEPT !.rc_failed = TRUE, !.validated = NoPort]
            /\ RcReturn(t, FALSE)
    /\ UNCHANGED <<tp, rd, axisVars, lastVars, btnVars, inputVars, sendq, arduino,
                   port_cache, ser_port, ser_open, new_serial, rd_handle,
                   nFaults, tx>>

\* "serial.Serial(ARDUINO_PORT, ARDUINO_BAUDRATE, timeout=0.1)": the global is read
\* again; with None no port is opened and an unopened object is returned
RcOpen(t) ==
    /\ pc[t] = "rc_open"
    /\ \E opens \in BOOLEAN :
         IF (ARDUINO_PORT = NoPort \/ opens) /\ Len(ser_port) < MaxSessions
         THEN /\ ser_port' = Append(ser_port, ARDUINO_PORT)
              /\ ser_open' = IF ARDUINO_PORT = NoPort THEN ser_open
                             ELSE ser_open \cup {Len(ser_port) + 1}
              /\ new_serial' = [new_serial EXCEPT ![t] = Len(ser_port) + 1]
              /\ hist' = [hist EXCEPT !.bad_open = hist.bad_open
                                         \/ (ARDUINO_PORT # NoPort
                                             /\ ARDUINO_PORT # hist.validated)]
              /\ pc' = [pc EXCEPT ![t] = "rc_assign"]
              /\ UNCHANGED <<ARDUINO_ENABLE_SERIAL, consecutive_errors>>
         ELSE /\ ARDUINO_PORT # NoPort
              /\ ARDUINO_ENABLE_SERIAL' = DisableOnFailure(ARDUINO_ENABLE_SERIAL)
              /\ hist' = [hist EXCEPT !.rc_failed = TRUE]
              /\ RcReturn(t, FALSE)
              /\ UNCHANGED <<ser_port, ser_open, new_serial>>
    /\ UNCHANGED <<tp, rd, axisVars, lastVars, btnVars, inputVars, sendq, arduino,
                   ARDUINO_PORT, port_cache, det, rd_handle, nFaults, tx>>

\* "arduino = <the new object>" and "return True"
RcAssign(t) ==
    /\ pc[t] = "rc_assign"
    /\ arduino' = new_serial[t]
    /\ ser_open' = OpenAfterRebind(ser_open, arduino, new_serial[t])
    /\ new_serial' = [new_serial EXCEPT ![t] = NoSession]
    /\ RcReturn(t, TRUE)
    /\ hist' = [hist EXCEPT !.handle_by = hist.handle_by \cup {t}]
    /\ UNCHANGED <<tp, rd, axisVars, lastVars, btnVars, inputVars, sendq,
                   ARDUINO_ENABLE_SERIAL, ARDUINO_PORT, port_cache, ser_port, det,
                   rd_handle, nFaults, tx>>

(***************************************************************************)
(* serial_read_thread                                                      *)
(***************************************************************************)
\* "if not ARDUINO_ENABLE_SERIAL or arduino is None: return"
RdEntry ==
    /\ pc["reader"] = "rd_entry"
    /\ pc' = [pc EXCEPT !["reader"] =
                IF ~ARDUINO_ENABLE_SERIAL \/ arduino = NoSession THEN "rd_exit"
                ELSE "rd_poll"]
    /\ UNCHANGED <<tp, rd, axisVars, lastVars, btnVars, inputVars, sendq, connVars, det,
                   new_serial, readerVars, nFaults, tx, hist>>

\* what an I/O call of the reader can do on the handle as it is now
ReadOutcomes(results) ==
    IF IsOpen(arduino)
    THEN results \cup (IF nFaults < MaxFaults THEN {"fault"} ELSE {})
    ELSE {"error"}

\* an except branch of the reader: count, and reconnect at max_errors
RdError(outcome) ==
    /\ consecutive_errors' = consecutive_errors + 1
    /\ nFaults' = IF outcome = "fault" THEN nFaults + 1 ELSE nFaults
    /\ pc' = [pc EXCEPT !["reader"] =
                IF consecutive_errors + 1 >= MAX_ERRORS THEN "rc_check" ELSE "rd_poll"]
    /\ hist' = [(IF consecutive_errors + 1 >= MAX_ERRORS
                 THEN RcStarted(nFaults') ELSE hist)
                EXCEPT !.rd_stale = hist.rd_stale \/ outcome = "error",
                       !.rd_clean = FALSE]

\* "if arduino.in_waiting > 0:" ... "else: time.sleep(0.01)"
RdPoll ==
    /\ pc["reader"] = "rd_poll"
    /\ \E outcome \in ReadOutcomes({"data", "nodata"}) :
         /\ rd_handle' = arduino
         /\ IF outcome \in {"data", "nodata"}
            THEN /\ pc' = [pc EXCEPT !["reader"] =
                             IF outcome = "data" THEN "rd_read" ELSE "rd_poll"]
                 /\ hist' = [hist EXCEPT !.rd_clean = outcome = "nodata"]
                 /\ UNCHANGED <<consecutive_errors, nFaults>>
            ELSE RdError(outcome)
    /\ UNCHANGED <<tp, rd, axisVars, lastVars, btnVars, inputVars, sendq, connVars, det,
                   new_serial, tx>>

\* "data = arduino.read(arduino.in_waiting)...": the global is read again
RdRead ==
    /\ pc["reader"] = "rd_read"
    /\ \E outcome \in ReadOutcomes({"data"}) :
         IF outcome = "data"
         THEN /\ consecutive_errors' = 0
              /\ pc' = [pc EXCEPT !["reader"] = "rd_poll"]
              /\ hist' = [hist EXCEPT !.rd_mixed = hist.rd_mixed \/ arduino # rd_handle,
                                      !.rd_clean = TRUE]
              /\ UNCHANGED nFaults
         ELSE RdError(outcome)
    /\ UNCHANGED <<tp, rd, axisVars, lastVars, btnVars, inputVars, sendq, connVars, det,
                   new_serial, rd_handle, tx>>


(***************************************************************************)
(* serial_read_thread: the line buffer (lines 362, 370-378)                *)
(***************************************************************************)
\* what the inbound bytes are made of: a printable character, a space, a newline, and
\* a byte that is not ASCII
InboundTokens == {"a", " ", "\n", "nonascii"}

\* inbound streams of up to MaxStreamLen bytes
Streams == UNION {[1..n -> InboundTokens] : n \in 0..MaxStreamLen}

IdleFraming == [inbound |-> <<>>, consumed |-> <<>>, buffer |-> <<>>, printed |-> <<>>]

\* ".decode('ascii', errors='ignore')": bytes that are not ASCII are dropped
DecodeIgnore(data) == SelectSeq(data, LAMBDA b : b # "nonascii")

\* place of the first newline of the buffer, 0 when there is none
FirstNewline(buffer) ==
    IF \E i \in 1..Len(buffer) : buffer[i] = "\n"
    THEN CHOOSE i \in 1..Len(buffer) :
            buffer[i] = "\n" /\ \A j \in 1..(i - 1) : buffer[j] # "\n"
    ELSE 0

\* "line.strip()": leading and trailing whitespace removed
StripLine(line) ==
    LET keep == {i \in 1..Len(line) : line[i] \notin {" ", "\n"}}
    IN  IF keep = {} THEN <<>>
        ELSE SubSeq(line,
                    CHOOSE i \in keep : \A j \in keep : i <= j,
                    CHOOSE i \in keep : \A j \in keep : i >= j)

\* lines 374-378: "while '\n' in buffer: line, buffer = buffer.split('\n', 1); ..."
RECURSIVE DrainLines(_, _)
DrainLines(buffer, printed) ==
    LET nl == FirstNewline(buffer)
    IN  IF nl = 0 THEN [buffer |-> buffer, printed |-> printed]
        ELSE LET line == StripLine(SubSeq(buffer, 1, nl - 1))
             IN  DrainLines(SubSeq(buffer, nl + 1, Len(buffer)),
                            IF line # <<>> THEN Append(printed, line) ELSE printed)

\* lines 370-378: one read of the k bytes that are waiting, and the lines it completes
RdChunk ==
    /\ rd.inbound # <<>>
    /\ \E k \in 1..Len(rd.inbound) :
         LET data == DecodeIgnore(SubSeq(rd.inbound, 1, k))
             after == DrainLines(rd.buffer \o data, rd.printed)
         IN  rd' = [inbound |-> SubSeq(rd.inbound, k + 1, Len(rd.inbound)),
                    consumed |-> rd.consumed \o SubSeq(rd.inbound, 1, k),
                    buffer |-> after.buffer, printed |-> after.printed]
    /\ UNCHANGED <<progVars, tp>>

(***************************************************************************)
(* Shutdown (lines 711-712)                                                *)
(***************************************************************************)
\* positions of the main thread inside the try block of the main loop
InMainLoop ==
    \/ pc["main"] \in {"idle", "send_check", "write", "after_send", "rc_check",
                        "rc_close", "rc_none", "rc_clear", "rc_if", "rc_open", "rc_assign"}
    \/ pc["main"] \in {"det_enum", "det_probe"} /\ det["main"].caller = "reconnect"

\* "except KeyboardInterrupt: sys.exit(0)": the process ends.  Nothing closes the
\* session and nothing joins the reader, a daemon thread, which is abandoned where it
\* is; whether the interpreter's finalization closes the serial objects is not fixed.
KeyboardInterrupt ==
    /\ InMainLoop
    /\ pc' = [pc EXCEPT !["main"] = "interrupted"]
    /\ \E finalized \in BOOLEAN : ser_open' = IF finalized THEN {} ELSE ser_open
    /\ UNCHANGED <<tp, rd, axisVars, lastVars, btnVars, inputVars, sendq, arduino,
                   ARDUINO_ENABLE_SERIAL, ARDUINO_PORT, port_cache, ser_port, det,
                   new_serial, readerVars, nFaults, tx, hist>>

(***************************************************************************)
(* test_port, statement by statement (lines 130-192)                       *)
(***************************************************************************)
\* what the device's reply is made of
ReplyTokens == {"STATUS:PAN:", "TILT:", "ZOOM:", "\n"}

\* replies of up to MaxReplyLen tokens
Replies == UNION {[1..n -> ReplyTokens] : n \in 0..MaxReplyLen}

\* the reply as the driver hands it over: all at once, or in two reads cut after token k
Chunks(reply, k) ==
    SelectSeq(<<SubSeq(reply, 1, k), SubSeq(reply, k + 1, Len(reply))>>,
              LAMBDA c : c # <<>>)

\* "b'\n' in response"
HasNewline(response) == \E i \in 1..Len(response) : response[i] = "\n"

\* str.strip(): leading and trailing whitespace (here: newlines) removed
Strip(response) ==
    LET keep == {i \in 1..Len(response) : response[i] # "\n"}
    IN  IF keep = {} THEN <<>>
        ELSE SubSeq(response,
                    CHOOSE i \in keep : \A j \in keep : i <= j,
                    CHOOSE i \in keep : \A j \in keep : i >= j)

\* lines 182-186: the test applied to everything that was read
Qualifies(response) ==
    LET response_str == Strip(response)
    IN  /\ response # <<>>
        /\ response_str # <<>> /\ response_str[1] = "STATUS:PAN:"
        /\ \E i \in 1..Len(response_str) : response_str[i] = "TILT:"
        /\ \E i \in 1..Len(response_str) : response_str[i] = "ZOOM:"

IdleProbe ==
    [pc |-> "idle", max_test_time |-> 0, elapsed |-> 0, response_start |-> 0,
     incoming |-> <<>>, response |-> <<>>, test_serial |-> "none", result |-> "none"]

\* an except branch of test_port: "return False", the trial connection is not touched
TpExcept == tp' = [tp EXCEPT !.pc = "done", !.result = "False"]

\* "test_serial = serial.Serial(port_path, ARDUINO_BAUDRATE, timeout=0.2)", sleep(0.05)
TpOpen ==
    /\ tp.pc = "tp_open"
    /\ \E outcome \in {"ok", "stall", "raise"} :
         IF outcome = "raise" THEN TpExcept
         ELSE tp' = [tp EXCEPT !.pc = "tp_check", !.test_serial = "open",
                               !.elapsed = (IF outcome = "stall" THEN OpenStallMs ELSE 0)
                                           + PORT_INIT_MS]
    /\ UNCHANGED <<progVars, rd>>

\* lines 147-150: "if time.time() - test_start >= max_test_time: close, return False"
TpCheck ==
    /\ tp.pc = "tp_check"
    /\ IF tp.elapsed >= tp.max_test_time
       THEN tp' = [tp EXCEPT !.pc = "done", !.test_serial = "closed", !.result = "False"]
       ELSE tp' = [tp EXCEPT !.pc = "tp_write"]
    /\ UNCHANGED <<progVars, rd>>

\* lines 152-165: reset_input_buffer, write(b"STATUS\n"), flush, start of the wait
TpWrite ==
    /\ tp.pc = "tp_write"
    /\ \E outcome \in {"ok", "raise"} :
         IF outcome = "raise" THEN TpExcept
         ELSE tp' = [tp EXCEPT !.pc = "tp_poll", !.response_start = tp.elapsed]
    /\ UNCHANGED <<progVars, rd>>

\* lines 167-177: one iteration of the wait loop
TpPoll ==
    /\ tp.pc = "tp_poll"
    /\ LET max_response_time == Min(MAX_RESPONSE_MS, tp.max_test_time - tp.response_start)
       IN  IF tp.elapsed - tp.response_start >= max_response_time
              \/ tp.elapsed >= tp.max_test_time
           THEN tp' = [tp EXCEPT !.pc = "tp_close"]
           ELSE \E outcome \in {"ok", "raise"} :
                  IF outcome = "raise" THEN TpExcept
                  ELSE IF tp.incoming = <<>>
                  THEN tp' = [tp EXCEPT !.elapsed = tp.elapsed + RESPONSE_POLL_MS]
                  ELSE LET response == tp.response \o Head(tp.incoming)
                       IN  tp' = [tp EXCEPT
                                    !.response = response,
                                    !.incoming = Tail(tp.incoming),
                                    !.pc = IF HasNewline(response) THEN "tp_close"
                                           ELSE "tp_poll",
                                    !.elapsed = IF HasNewline(response) THEN tp.elapsed
                                                ELSE tp.elapsed + RESPONSE_POLL_MS]
    /\ UNCHANGED <<progVars, rd>>

\* line 179: "test_serial.close()"
TpClose ==
    /\ tp.pc = "tp_close"
    /\ \E outcome \in {"ok", "raise"} :
         IF outcome = "raise" THEN TpExcept
         ELSE tp' = [tp EXCEPT !.pc = "tp_parse", !.test_serial = "closed"]
    /\ UNCHANGED <<progVars, rd>>

\* lines 181-186: the reply is tested and the result returned
TpParse ==
    /\ tp.pc = "tp_parse"
    /\ tp' = [tp EXCEPT !.pc = "done",
                        !.result = IF Qualifies(tp.response) THEN "True" ELSE "False"]
    /\ UNCHANGED <<progVars, rd>>

\* the interpreter finalizes the unreferenced Serial object at a time of its choosing
\* (io.IOBase.__del__ closes it)
TpCollect ==
    /\ tp.pc = "done" /\ tp.test_serial = "open"
    /\ tp' = [tp EXCEPT !.test_serial = "closed"]
    /\ UNCHANGED <<progVars, rd>>

(***************************************************************************)
(* Initial states and specifications                                       *)
(***************************************************************************)
NoEvent == [ev_type |-> "none", code |-> "none", state |-> 0]

NoTx ==
    [kind |-> "none", name |-> "none", arg |-> 0, yaw |-> 0, pitch |-> 0, zoom |-> 0,
     bytes |-> <<>>, session |-> NoSession, count |-> 0, ev |-> 0, time |-> 0, joy_time |-> -1,
     joy_gap |-> MIN_SEND_INTERVAL, joy_edge |-> FALSE, late |-> FALSE]

NoHist ==
    [rc_starts |-> 0, first_rc_faults |-> 0, rc_after_fail |-> FALSE, rc_failed |-> FALSE,
     late_call |-> FALSE, validated |-> NoPort, bad_open |-> FALSE,
     rd_stale |-> FALSE, rd_mixed |-> FALSE, rd_clean |-> FALSE,
     last_select |-> "none", handle_by |-> {}, rd_wrote |-> FALSE]

\* module-level initialisation of the main loop's globals (lines 10-30, 88-95, 418-449)
InitLoop ==
    /\ joy_x = 0 /\ joy_ry = 0 /\ joy_trigger_l = 0 /\ joy_trigger_r = 0
    /\ joystick_yaw_smoothed = 0 /\ joystick_pitch_smoothed = 0
    /\ joystick_zoom_smoothed = 0
    /\ joystick_yaw_last = 0 /\ joystick_pitch_last = 0 /\ joystick_zoom_last = 0
    /\ last_send_time = 0
    /\ loop = [yaw_scaled |-> 0, pitch_scaled |-> 0, zoom_scaled |-> 0,
               yaw_entered |-> FALSE, pitch_entered |-> FALSE, zoom_entered |-> FALSE,
               should_send |-> FALSE, current_time |-> 0]
    /\ joy_back = 0 /\ joy_start = 0 /\ joy_bumper_l = 0 /\ joy_bumper_r = 0
    /\ arduino_back_last = 0 /\ arduino_start_last = 0
    /\ arduino_bumper_l_last = 0 /\ arduino_bumper_r_last = 0
    /\ arduino_selected_pos = 1
    /\ event = NoEvent
    /\ now = StartTime /\ nEvents = 0 /\ nFaults = 0
    /\ tx = NoTx
    /\ prev = Before
    /\ consecutive_errors = 0 /\ rd_handle = NoSession
    /\ new_serial = [t \in Threads |-> NoSession]
    /\ ARDUINO_ENABLE_SERIAL = TRUE

\* the process starts: nothing is connected, the cache file may hold any port
Init ==
    /\ InitLoop /\ sendq = <<>>
    /\ arduino = NoSession /\ ARDUINO_PORT = NoPort
    /\ port_cache \in {NoPort} \cup Ports
    /\ ser_port = <<>> /\ ser_open = {}
    /\ hist = NoHist
    /\ pc = [t \in Threads |-> IF t = "main" THEN "startup" ELSE "not_started"]
    /\ det = [t \in Threads |-> IdleDet]
    /\ tp = IdleProbe /\ rd = IdleFraming

\* the state in which the main loop starts after an uneventful startup: no cache,
\* one candidate, which passed and was opened
InitConnected ==
    /\ InitLoop /\ sendq = <<>>
    /\ arduino = 1 /\ ARDUINO_PORT = 1 /\ port_cache = 1
    /\ ser_port = <<1>> /\ ser_open = {1}
    /\ hist = [NoHist EXCEPT !.validated = 1]
    /\ pc = [t \in Threads |-> IF t = "main" THEN "idle" ELSE "rd_entry"]
    /\ det = [t \in Threads |-> IdleDet]
    /\ tp = IdleProbe /\ rd = IdleFraming

\* inputs
DispatchEvents ==
    {AbsEv("ABS_X", v) : v \in StickStates}
    \cup {AbsEv("ABS_RY", v) : v \in PitchStates}
    \cup {AbsEv("ABS_RZ", v) : v \in TriggerStates}
    \cup {AbsEv("ABS_HAT0X", 0)}
ConnEvents == {KeyEv("BTN_SELECT", 1), AbsEv("ABS_X", 32767)}
LocateEnvs == {"noopen", "stall", "silent", "pass"}
ConnEnvs == {"noopen", "pass"}

\* the whole program
Next ==
    \/ Startup
    \/ DetCache("main", ConnEnvs)
    \/ \E t \in Threads : DetEnum(t, ConnPorts)
    \/ \E t \in Threads : DetProbe(t, ConnEnvs)
    \/ StartupConnect
    \/ \E e \in ConnEvents : GetEvent(e, MIN_SEND_INTERVAL, MaxConnEvents)
    \/ MainSendCheck
    \/ MainWrite(TRUE)
    \/ MainAfterSend
    \/ \E t \in Threads : RcCheck(t)
    \/ \E t \in Threads : RcClose(t)
    \/ \E t \in Threads : RcNone(t)
    \/ \E t \in Threads : RcClear(t)
    \/ \E t \in Threads : RcIf(t)
    \/ \E t \in Threads : RcOpen(t)
    \/ \E t \in Threads : RcAssign(t)
    \/ RdEntry
    \/ RdPoll
    \/ RdRead

Spec == Init /\ [][Next]_vars

\* the reader's line buffer on any inbound stream, split into reads in any way
InitFraming ==
    /\ InitLoop /\ sendq = <<>>
    /\ arduino = 1 /\ ARDUINO_PORT = 1 /\ port_cache = 1
    /\ ser_port = <<1>> /\ ser_open = {1}
    /\ hist = [NoHist EXCEPT !.validated = 1]
    /\ pc = [t \in Threads |-> IF t = "main" THEN "idle" ELSE "rd_read"]
    /\ det = [t \in Threads |-> IdleDet]
    /\ tp = IdleProbe
    /\ \E stream \in Streams : rd = [IdleFraming EXCEPT !.inbound = stream]

NextFraming == RdChunk

SpecFraming == InitFraming /\ [][NextFraming]_vars

\* the whole program with the shutdown signal; after sys.exit(0) no thread runs
NextShutdown ==
    \/ pc["main"] # "interrupted" /\ Next
    \/ KeyboardInterrupt

SpecShutdown == Init /\ [][NextShutdown]_vars

\* the main loop on a healthy session: no transport fault is injected
NextDispatch ==
    \/ \E e \in DispatchEvents, dt \in {ShortDt, MIN_SEND_INTERVAL} :
          GetEvent(e, dt, MaxEvents)
    \/ MainSendCheck
    \/ MainWrite(FALSE)
    \/ MainAfterSend

SpecDispatch == InitConnected /\ [][NextDispatch]_vars

\* the main loop on a healthy session, with the momentary controls
ButtonEvents ==
    {KeyEv(c, v) : c \in {"BTN_SELECT", "BTN_START", "BTN_TR", "BTN_TL"}, v \in {0, 1}}
    \cup {KeyEv("BTN_EAST", 1), AbsEv("ABS_X", 32767), AbsEv("ABS_X", 0)}
    \cup {KeyEv("BTN_SOUTH", 1), KeyEv("BTN_NORTH", 1), KeyEv("BTN_WEST", 1),
          KeyEv("BTN_EAST", 0)}

NextButtons ==
    \/ \E e \in ButtonEvents, dt \in {ShortDt, MIN_SEND_INTERVAL} :
          GetEvent(e, dt, MaxKeyEvents)
    \/ MainSendCheck
    \/ MainWrite(FALSE)
    \/ MainAfterSend

SpecButtons == InitConnected /\ [][NextButtons]_vars

\* the main loop on a healthy session, with samples of both signs and at both ends of
\* the sticks' and the triggers' ranges
RangeEvents ==
    {AbsEv("ABS_X", v) : v \in RangeStickStates}
    \cup {AbsEv("ABS_RY", v) : v \in {-32768, 32767}}
    \cup {AbsEv("ABS_RZ", v) : v \in {0, 255}}
    \cup {AbsEv("ABS_Z", v) : v \in {0, 255}}

NextRange ==
    \/ \E e \in RangeEvents : GetEvent(e, MIN_SEND_INTERVAL, MaxEvents)
    \/ MainSendCheck
    \/ MainWrite(FALSE)
    \/ MainAfterSend

SpecRange == InitConnected /\ [][NextRange]_vars

\* send_cmd on any command, followed by the main loop on a healthy session
CmdTokens == {"HOME", " ", "1", "\n"}

Cmds == UNION {[1..n -> CmdTokens] : n \in 0..MaxCmdLen}

SendEvents == {KeyEv("BTN_SELECT", 1), KeyEv("BTN_TR", 1), AbsEv("ABS_X", 32767)}

InitSend ==
    /\ InitLoop
    /\ arduino = 1 /\ ARDUINO_PORT = 1 /\ port_cache = 1
    /\ ser_port = <<1>> /\ ser_open = {1}
    /\ hist = [NoHist EXCEPT !.validated = 1]
    /\ det = [t \in Threads |-> IdleDet]
    /\ tp = IdleProbe /\ rd = IdleFraming
    /\ \E cmd \in Cmds :
         /\ sendq = <<[SendCmdCall("raw", 0) EXCEPT !.cmd = cmd]>>
         /\ pc = [t \in Threads |-> IF t = "main" THEN "send_check" ELSE "rd_entry"]

NextSend ==
    \/ \E e \in SendEvents : GetEvent(e, MIN_SEND_INTERVAL, MaxSendEvents)
    \/ MainSendCheck
    \/ MainWrite(FALSE)
    \/ MainAfterSend

SpecSend == InitSend /\ [][NextSend]_vars

\* startup discovery alone, with every behaviour of a candidate port
NextLocate ==
    \/ Startup
    \/ DetCache("main", LocateEnvs)
    \/ DetEnum("main", NumPorts + 1)
    \/ DetProbe("main", LocateEnvs)
    \/ StartupConnect

SpecLocate == Init /\ [][NextLocate]_vars

\* startup discovery alone, with a longer list of candidates
NextScan ==
    \/ Startup
    \/ DetCache("main", LocateEnvs)
    \/ DetEnum("main", ScanPorts)
    \/ DetProbe("main", LocateEnvs)
    \/ StartupConnect

SpecScan == Init /\ [][NextScan]_vars

\* one call of test_port, on any reply and with a fault at any I/O statement
InitProbe ==
    /\ InitLoop /\ sendq = <<>>
    /\ arduino = NoSession /\ ARDUINO_PORT = NoPort /\ port_cache = NoPort
    /\ ser_port = <<>> /\ ser_open = {}
    /\ hist = NoHist
    /\ pc = [t \in Threads |-> IF t = "main" THEN "det_probe" ELSE "not_started"]
    /\ det = [t \in Threads |-> IdleDet]
    /\ \E reply \in Replies, max_test_time \in {MIN_SLICE_MS, CACHE_TEST_TIME_MS} :
         \E k \in 0..Len(reply) :
            tp = [IdleProbe EXCEPT !.pc = "tp_open", !.max_test_time = max_test_time,
                                   !.incoming = Chunks(reply, k)]
    /\ rd = IdleFraming

NextProbe ==
    \/ TpOpen
    \/ TpCheck
    \/ TpWrite
    \/ TpPoll
    \/ TpClose
    \/ TpParse
    \/ TpCollect

SpecProbe == InitProbe /\ [][NextProbe]_vars


(***************************************************************************)
(* Properties                                                              *)
(***************************************************************************)
\* the main loop has finished the body of the loop for the latest Absolute event
HandlerDone == pc["main"] = "idle" /\ event.ev_type = "Absolute"

\* a velocity command was written while the latest event was processed
SentThisEvent == tx.ev = nEvents /\ tx.kind = "send_joystick_values"

\* the raw value of an axis was outside its deadzone before the latest event and is
\* inside it now
YawRawEdge ==
    Abs(prev.yaw_raw) >= JOYSTICK_DEADZONE_YAW /\ Abs(joy_x) < JOYSTICK_DEADZONE_YAW
PitchRawEdge ==
    Abs(prev.pitch_raw) >= JOYSTICK_DEADZONE_PITCH /\ Abs(joy_ry) < JOYSTICK_DEADZONE_PITCH
ZoomRawEdge ==
    /\ Abs(prev.zoom_raw) >= JOYSTICK_DEADZONE_ZOOM
    /\ Abs(ZoomRawScaled(joy_trigger_r, joy_trigger_l)) < JOYSTICK_DEADZONE_ZOOM

\* C1: when an axis whose last transmitted value is non-zero goes from outside its
\* deadzone (previous event) to inside it (this event), a velocity command with 0 for
\* that axis is written while this event is processed, whatever the time since the
\* last send.
C1_DeadzoneEntrySendsZero ==
    HandlerDone =>
        /\ (YawRawEdge /\ prev.yaw_last # 0) => (SentThisEvent /\ tx.yaw = 0)
        /\ (PitchRawEdge /\ prev.pitch_last # 0) => (SentThisEvent /\ tx.pitch = 0)
        /\ (ZoomRawEdge /\ prev.zoom_last # 0) => (SentThisEvent /\ tx.zoom = 0)


\* C2: two successive velocity commands are written at least MIN_SEND_INTERVAL apart,
\* unless the later one is written on an event on which an axis was detected
\* entering its deadzone.
C2_MinSendInterval ==
    (tx.joy_time >= 0 /\ tx.joy_gap < MIN_SEND_INTERVAL) => tx.joy_edge

\* C2 witness: a second velocity command went out on an event without deadzone entry,
\* after an event in between had been held back
C2_Witness ==
    /\ tx.kind = "send_joystick_values" /\ tx.count = 2 /\ nEvents >= 3
    /\ ~tx.joy_edge /\ tx.joy_gap >= MIN_SEND_INTERVAL

\* C3: after an Absolute event whose raw sample of an axis is inside that axis's
\* deadzone, the conditioned output of the axis is 0 and its smoothed accumulator is 0,
\* whatever the accumulator held before.
C3_DeadzoneGivesZero ==
    event.ev_type = "Absolute" =>
        /\ ((event.code = "ABS_X" /\ Abs(event.state) < JOYSTICK_DEADZONE_YAW)
             \/ Abs(joy_x) < JOYSTICK_DEADZONE_YAW)
           => (joystick_yaw_smoothed = 0 /\ loop.yaw_scaled = 0)
        /\ ((event.code = "ABS_RY" /\ Abs(event.state) < JOYSTICK_DEADZONE_PITCH)
             \/ Abs(joy_ry) < JOYSTICK_DEADZONE_PITCH)
           => (joystick_pitch_smoothed = 0 /\ loop.pitch_scaled = 0)
        /\ Abs(ZoomRawScaled(joy_trigger_r, joy_trigger_l)) < JOYSTICK_DEADZONE_ZOOM
           => (joystick_zoom_smoothed = 0 /\ loop.zoom_scaled = 0)

\* C3 witness: a non-zero sample inside the deadzone arrived while the accumulator
\* held a non-zero value
C3_Witness ==
    /\ event = AbsEv("ABS_X", 900)
    /\ prev.yaw_smoothed # 0
    /\ joystick_yaw_smoothed = 0


\* C4: from a connected session, reconnect_serial is not started before the third
\* transport fault, and three faults start it once, not twice.
C4_ThreeFaultsOneReconnect ==
    /\ hist.rc_starts >= 1 => hist.first_rc_faults >= MAX_ERRORS
    /\ nFaults <= MAX_ERRORS => hist.rc_starts <= 1

\* C5: once a reconnect attempt has failed, the enable flag stays false, no send call
\* begun afterwards writes to a port, and the main loop has not stopped.
C5_DisabledSendsAreNoOps ==
    /\ hist.rc_failed => ~ARDUINO_ENABLE_SERIAL
    /\ ~tx.late
    /\ hist.rc_failed => pc["main"] # "exited"

\* C5 witness: after a failed reconnect the main loop took a further event whose send
\* call returned without writing, although a session is open again
C5_Witness ==
    /\ hist.rc_failed /\ hist.late_call
    /\ pc["main"] = "after_send" /\ tx.ev < nEvents
    /\ IsOpen(arduino)

\* C6: after a reconnect attempt has failed, reconnect_serial (and with it
\* detect_esp32_port) is never started again.
C6_NoRediscoveryWhenDisabled == ~hist.rc_after_fail

\* C7: at most one serial object made for the handle is open, and an open one is the
\* handle's, or the one a thread has just constructed and is about to assign.
C7_OneSession ==
    /\ Cardinality(ser_open) <= 1
    /\ \A s \in ser_open :
          \/ s = arduino
          \/ \E t \in Threads : pc[t] = "rc_assign" /\ new_serial[t] = s

\* C8: the reader never counts a fault for a handle that a reconnect closed or
\* removed, and within one iteration it polls and reads the same handle.
C8_ReaderNeverUsesStaleHandle == ~hist.rd_stale /\ ~hist.rd_mixed

\* C9: a serial object is opened for the handle only on the endpoint that passed the
\* handshake in the detect call that last returned, and a finished detect call returns
\* only an endpoint that passed test_port in that call (the cached one included).
C9_OpenOnlyAfterHandshake ==
    /\ ~hist.bad_open
    /\ \A t \in Threads :
          pc[t] \in {"startup_connect", "rc_if"} =>
              /\ det[t].result = Validated(det[t])
              /\ det[t].outcome = "cache" =>
                    /\ det[t].result = det[t].cached
                    /\ Len(det[t].probed) = 1
                    /\ det[t].probed[1].port = det[t].cached
                    /\ det[t].probed[1].ok /\ det[t].probed[1].how = "cache"

\* C9 witness: the handle holds a session that a reconnect opened on the endpoint
\* its scan validated
C9_Witness ==
    /\ Len(ser_port) = 2 /\ arduino = 2 /\ IsOpen(arduino)
    /\ hist.validated = ser_port[2]
    /\ pc["main"] = "idle"

\* the probes of the scan loop in a detect call, in the order they were made
ScanProbes(d) == SelectSeq(d.probed, LAMBDA p : p.how = "scan")

C11_ValidCacheShortCircuits ==
    LET d == det["main"]
    IN  (/\ pc["main"] = "startup_connect"
         /\ ~d.force_rescan /\ d.cached # NoPort
         /\ d.probed # <<>> /\ d.probed[1].how = "cache" /\ d.probed[1].ok)
        => /\ d.result = d.cached
           /\ Len(d.probed) = 1 /\ d.probed[1].port = d.cached
           /\ port_cache = d.cached
           /\ ~d.enumerated /\ d.ports = <<>>

\* C11 witness: the call returned on the cached endpoint
C11_Witness ==
    /\ pc["main"] = "startup_connect"
    /\ det["main"].cached = NumPorts /\ det["main"].result = NumPorts
    /\ det["main"].outcome = "cache" /\ port_cache = NumPorts

FirstLine(response) ==
    LET nl == {i \in 1..Len(response) : response[i] = "\n"}
    IN  IF nl = {} THEN response
        ELSE SubSeq(response, 1, (CHOOSE i \in nl : \A j \in nl : i <= j) - 1)

\* C13: test_port returns True only if the reply text before the first newline starts
\* with STATUS:PAN: and contains TILT: and ZOOM:.
C13_AcceptsOnlyQualifyingLine ==
    (tp.pc = "done" /\ tp.result = "True") =>
        LET line == FirstLine(tp.response)
        IN  /\ line # <<>> /\ line[1] = "STATUS:PAN:"
            /\ \E i \in 1..Len(line) : line[i] = "TILT:"
            /\ \E i \in 1..Len(line) : line[i] = "ZOOM:"

\* C14: when test_port has returned, the trial connection it opened is closed.
C14_TrialConnectionClosed == tp.pc = "done" => tp.test_serial # "open"


\* C15: the startup code either opens the located port and goes on, or, when no port
\* was located or the open failed, exits; once exited the reader thread was never
\* started, no input event was processed, nothing was sent, and nothing happens.
C15_StartupFailureExits ==
    /\ [](pc["main"] = "exited" =>
            /\ pc["reader"] = "not_started"
            /\ nEvents = 0 /\ tx = NoTx
            /\ arduino = NoSession /\ ser_open = {})
    /\ [][/\ pc["main"] = "startup_connect" =>
               \/ /\ pc'["main"] = "idle" /\ pc'["reader"] = "rd_entry"
                  /\ det["main"].result # NoPort
                  /\ arduino' \in ser_open' /\ ser_port'[arduino'] = det["main"].result
               \/ /\ pc'["main"] = "exited" /\ pc'["reader"] = "not_started"
                  /\ arduino' = NoSession
          /\ pc["main"] = "exited" => UNCHANGED progVars]_vars

\* C15 witness: a port was located, could not be opened, and the process exited
C15_Witness ==
    /\ pc["main"] = "exited" /\ ARDUINO_PORT # NoPort /\ pc["reader"] = "not_started"


\* positions inside reconnect_serial and the discovery it runs
ReconnectPcs ==
    {"rc_check", "rc_close", "rc_none", "rc_clear", "det_enum", "det_probe", "rc_if",
     "rc_open", "rc_assign"}

\* C16: after startup, while fewer than three transport faults have occurred, the
\* session is open, the cache still holds its endpoint and no thread is in
\* reconnect_serial.
C16_FaultBelowThresholdKeepsSession ==
    (pc["reader"] # "not_started" /\ nFaults < MAX_ERRORS) =>
        /\ IsOpen(arduino)
        /\ port_cache # NoPort
        /\ \A t \in Threads : pc[t] \notin ReconnectPcs


\* C17: when the reader's latest iteration on the session was free of faults (an empty
\* poll, or a poll and a read), its consecutive-error counter is 0.
C17_FaultFreeReadResetsCounter ==
    (pc["reader"] = "rd_poll" /\ hist.rd_clean) => consecutive_errors = 0


\* the latest event is a press (0 to 1) of the control `code`, whose level was `before`
Rising(code, before) == event.code = code /\ before = 0 /\ event.state = 1

\* the latest event changed the level of the control `code`
LevelChanged(code, before) == event.code = code /\ event.state # before

\* the command `name` was written, once, while the latest event was processed
SentCmd(name) ==
    /\ tx.ev = nEvents /\ tx.kind = "send_cmd" /\ tx.name = name
    /\ tx.count = prev.tx_count + 1

\* C18: HOME, STOP, SAVE and GOTO are written on an event exactly when that event is a
\* press (level 0 to 1) of back, start, right bumper or left bumper respectively.
C18_CommandOncePerPress ==
    (pc["main"] = "idle" /\ event.ev_type = "Key") =>
        /\ SentCmd("HOME") <=> Rising("BTN_SELECT", prev.back_last)
        /\ SentCmd("STOP") <=> Rising("BTN_START", prev.start_last)
        /\ SentCmd("SAVE") <=> Rising("BTN_TR", prev.bumper_r_last)
        /\ SentCmd("GOTO") <=> Rising("BTN_TL", prev.bumper_l_last)

\* C19: a Key event leaves last_send_time, the last transmitted axis values and the
\* smoothed accumulators as they were, and when it changed the level of a control the
\* control's command is written while that event is processed.
C19_CommandImmediate ==
    event.ev_type = "Key" =>
        /\ last_send_time = prev.last_send_time
        /\ joystick_yaw_last = prev.yaw_last
        /\ joystick_pitch_last = prev.pitch_last
        /\ joystick_zoom_last = prev.zoom_last
        /\ joystick_yaw_smoothed = prev.yaw_smoothed
        /\ joystick_pitch_smoothed = prev.pitch_smoothed
        /\ joystick_zoom_smoothed = prev.zoom_smoothed
        /\ pc["main"] = "idle" =>
              /\ LevelChanged("BTN_SELECT", prev.back_last) => SentCmd("HOME")
              /\ LevelChanged("BTN_START", prev.start_last) => SentCmd("STOP")
              /\ LevelChanged("BTN_TR", prev.bumper_r_last) => SentCmd("SAVE")
              /\ LevelChanged("BTN_TL", prev.bumper_l_last) => SentCmd("GOTO")

\* C19 witness: STOP was written less than MIN_SEND_INTERVAL after a velocity send,
\* with a non-zero yaw value outstanding
C19_Witness ==
    /\ pc["main"] = "idle" /\ event = KeyEv("BTN_START", 1)
    /\ SentCmd("STOP")
    /\ last_send_time > 0 /\ now - last_send_time < MIN_SEND_INTERVAL
    /\ joystick_yaw_last # 0 /\ joystick_yaw_smoothed # 0


\* an axis's conditioned value of the latest event differs from the value last
\* transmitted before the event by more than the axis's threshold
ExceedsThreshold ==
    \/ Abs(loop.yaw_scaled - prev.yaw_last) > JOYSTICK_SEND_THRESHOLD
    \/ Abs(loop.pitch_scaled - prev.pitch_last) > JOYSTICK_SEND_THRESHOLD
    \/ Abs(loop.zoom_scaled - prev.zoom_last) > ZOOM_SEND_THRESHOLD

\* an axis was detected entering its deadzone on the latest event
EnteredThisEvent == loop.yaw_entered \/ loop.pitch_entered \/ loop.zoom_entered

\* C20: on an Absolute event without a deadzone entry a velocity command is written
\* only if some axis exceeds its threshold; otherwise nothing is written.
C20_SendNeedsThreshold ==
    (HandlerDone /\ ~EnteredThisEvent) =>
        /\ SentThisEvent => ExceedsThreshold
        /\ ~ExceedsThreshold => tx.count = prev.tx_count

\* C20 witness: a velocity command was written without a deadzone entry on an event
\* where only the zoom axis had moved by more than its threshold
C20_Witness ==
    /\ HandlerDone /\ SentThisEvent /\ ~EnteredThisEvent
    /\ Abs(loop.zoom_scaled - prev.zoom_last) > ZOOM_SEND_THRESHOLD
    /\ Abs(loop.yaw_scaled - prev.yaw_last) <= JOYSTICK_SEND_THRESHOLD
    /\ Abs(loop.pitch_scaled - prev.pitch_last) <= JOYSTICK_SEND_THRESHOLD
    /\ tx.zoom = loop.zoom_scaled


\* C21: whatever a send call has written ends with a newline; send_cmd writes a command
\* that ends with a newline unchanged, and any other command with one newline added.
C21_WritesEndWithNewline ==
    /\ tx.count > 0 => (tx.bytes # <<>> /\ tx.bytes[Len(tx.bytes)] = "\n")
    /\ (pc["main"] = "after_send" /\ tx.ev = nEvents /\ tx.count = prev.tx_count + 1
         /\ Head(sendq).fn = "send_cmd") =>
          LET cmd == Head(sendq).cmd
              n == Len(cmd)
          IN  IF n > 0 /\ cmd[n] = "\n"
              THEN tx.bytes = cmd
              ELSE /\ Len(tx.bytes) = n + 1
                   /\ SubSeq(tx.bytes, 1, n) = cmd
                   /\ tx.bytes[n + 1] = "\n"

\* C21 witness: a command without a final newline, but with one inside, was written
\* with one newline added
C21_Witness ==
    /\ pc["main"] = "after_send" /\ tx.count = 1
    /\ Head(sendq).cmd = <<"HOME", "\n", "1">>
    /\ tx.bytes = <<"HOME", "\n", "1", "\n">>

\* the legal values of an integer of a velocity command
InRange(v) == v >= -JOYSTICK_MAX_INT /\ v <= JOYSTICK_MAX_INT

\* C22: the three integers of every velocity command written lie in [-32768, 32768],
\* and so do the numbers of the frame that carries them.
C22_VelocityInRange ==
    tx.kind = "send_joystick_values" =>
        /\ InRange(tx.yaw) /\ InRange(tx.pitch) /\ InRange(tx.zoom)
        /\ tx.bytes = <<"j", ",", ToString(tx.yaw), ",", ToString(tx.pitch), ",",
                        ToString(tx.zoom), "\n">>

\* C22 witness: a velocity command went out with the zoom value near the top of the
\* range and a negative yaw value, after samples at both ends of the ranges
C22_Witness ==
    /\ tx.kind = "send_joystick_values" /\ tx.ev = nEvents
    /\ tx.zoom > 30000 /\ tx.yaw < -JOYSTICK_DEADZONE_YAW
    /\ joy_x = -32768 /\ joy_trigger_r = 255

\* the preset index the claim assigns to the most recent preset-select event
ChosenPreset ==
    CASE hist.last_select = "BTN_SOUTH" -> 1
      [] hist.last_select = "BTN_EAST" -> 2
      [] hist.last_select = "BTN_NORTH" -> 3
      [] hist.last_select = "BTN_WEST" -> 4
      [] OTHER -> 1

\* C23: a SAVE or GOTO command written on the latest event carries the index of the
\* most recent preset-select event (south 1, east 2, north 3, west 4), or 1 when there
\* was none; the index is in 1..4.
C23_PresetIndexFollowsSelection ==
    (tx.ev = nEvents /\ tx.kind = "send_cmd" /\ tx.name \in {"SAVE", "GOTO"}) =>
        /\ tx.arg \in 1..4
        /\ tx.arg = ChosenPreset
        /\ tx.bytes = <<tx.name, " ", ToString(ChosenPreset), "\n">>

\* C23 witness: west was selected after east, and GOTO 4 was written
C23_Witness ==
    /\ tx.ev = nEvents /\ tx.name = "GOTO" /\ tx.arg = 4 /\ nEvents = 3
    /\ hist.last_select = "BTN_WEST"
    /\ tx.bytes = <<"GOTO", " ", "4", "\n">>

\* C24: the handle is closed or replaced by one thread only, that thread is not the
\* reader, and the reader never writes to a serial connection.
C24_ReaderOnlyReads ==
    /\ Cardinality(hist.handle_by) <= 1
    /\ "reader" \notin hist.handle_by
    /\ ~hist.rd_wrote

\* no endpoint was probed twice in the detect call d
ProbedOnce(d) ==
    \A i, j \in 1..Len(d.probed) : i # j => d.probed[i].port # d.probed[j].port

\* C25: within one call of detect_esp32_port no endpoint is probed twice, the cached
\* one included, and once a reconnect has found no endpoint no further reconnect (and
\* scan) is started.
C25_BoundedProbing ==
    /\ \A t \in Threads : ProbedOnce(det[t])
    /\ ~hist.rc_after_fail

\* C26: when the process has ended on the shutdown signal, the session is closed and
\* the reader thread has left its loop (it was joined).
C26_ShutdownJoinsReader ==
    pc["main"] = "interrupted" =>
        /\ ~IsOpen(arduino)
        /\ pc["reader"] = "rd_exit"

\* the newline-terminated lines of a byte sequence, in order, without their newlines
RECURSIVE CompleteLines(_)
CompleteLines(bytes) ==
    LET nl == {i \in 1..Len(bytes) : bytes[i] = "\n"}
    IN  IF nl = {} THEN <<>>
        ELSE LET first == CHOOSE i \in nl : \A j \in nl : i <= j
             IN  <<SubSeq(bytes, 1, first - 1)>>
                 \o CompleteLines(SubSeq(bytes, first + 1, Len(bytes)))

\* what follows the last newline of a byte sequence
UnterminatedTail(bytes) ==
    LET nl == {i \in 1..Len(bytes) : bytes[i] = "\n"}
    IN  IF nl = {} THEN bytes
        ELSE SubSeq(bytes, (CHOOSE i \in nl : \A j \in nl : i >= j) + 1, Len(bytes))

\* C27: however the inbound bytes were split into reads, the reader has printed the
\* newline-terminated lines received so far, each once, in order and unchanged, and
\* its buffer holds the unterminated tail.
C27_LinesSurfacedVerbatim ==
    /\ rd.printed = CompleteLines(rd.consumed)
    /\ rd.buffer = UnterminatedTail(rd.consumed)

\* one axis of the pipeline applied to a raw sample and a previous accumulator:
\* curve (sticks only), smoothing, scaling, and the integer handed to the send call
\* given the value last sent
StickAxis(raw, s_prev, last, deadzone, scale_tenths) ==
    LET curved == apply_joystick_curve(raw, JOYSTICK_MAX_INT, deadzone)
        smoothed == Smooth(JOYSTICK_SMOOTHING_TENTHS, curved, deadzone, s_prev)
        scaled == Scale(smoothed, scale_tenths)
    IN  [smoothed |-> smoothed,
         out |-> IF EnteredDeadzone(last, scaled, Scale(deadzone, scale_tenths))
                 THEN 0 ELSE scaled]

ZoomAxis(trig_r, trig_l, s_prev, last) ==
    LET smoothed == Smooth(ZOOM_SMOOTHING_TENTHS, ZoomRawScaled(trig_r, trig_l),
                           JOYSTICK_DEADZONE_ZOOM, s_prev)
    IN  [smoothed |-> smoothed,
         out |-> IF EnteredDeadzone(last, smoothed, JOYSTICK_DEADZONE_ZOOM)
                 THEN 0 ELSE smoothed]

\* C28: after an Absolute event, conditioning the negated sample of each axis with
\* the negated previous accumulator (and negated last sent value) gives the negation
\* of the new accumulator and of the integer handed to the send call; the stored stick
\* value of a negated event state is the negation of the stored value.
C28_ConditioningIsOdd ==
    HandlerDone =>
        LET yaw == StickAxis(joy_x, prev.yaw_smoothed, prev.yaw_last,
                             JOYSTICK_DEADZONE_YAW, JOYSTICK_SCALE_YAW_TENTHS)
            yaw_neg == StickAxis(-joy_x, -prev.yaw_smoothed, -prev.yaw_last,
                                 JOYSTICK_DEADZONE_YAW, JOYSTICK_SCALE_YAW_TENTHS)
            pitch == StickAxis(joy_ry, prev.pitch_smoothed, prev.pitch_last,
                               JOYSTICK_DEADZONE_PITCH, JOYSTICK_SCALE_PITCH_TENTHS)
            pitch_neg == StickAxis(-joy_ry, -prev.pitch_smoothed, -prev.pitch_last,
                                   JOYSTICK_DEADZONE_PITCH, JOYSTICK_SCALE_PITCH_TENTHS)
            zoom == ZoomAxis(joy_trigger_r, joy_trigger_l, prev.zoom_smoothed,
                             prev.zoom_last)
            zoom_neg == ZoomAxis(joy_trigger_l, joy_trigger_r, -prev.zoom_smoothed,
                                 -prev.zoom_last)
        IN  /\ yaw.smoothed = joystick_yaw_smoothed /\ yaw.out = loop.yaw_scaled
            /\ pitch.smoothed = joystick_pitch_smoothed /\ pitch.out = loop.pitch_scaled
            /\ zoom.smoothed = joystick_zoom_smoothed /\ zoom.out = loop.zoom_scaled
            /\ yaw_neg.smoothed = -joystick_yaw_smoothed /\ yaw_neg.out = -loop.yaw_scaled
            /\ pitch_neg.smoothed = -joystick_pitch_smoothed
            /\ pitch_neg.out = -loop.pitch_scaled
            /\ zoom_neg.smoothed = -joystick_zoom_smoothed
            /\ zoom_neg.out = -loop.zoom_scaled
            /\ SentThisEvent =>
                  /\ tx.yaw = -yaw_neg.out /\ tx.pitch = -pitch_neg.out
                  /\ tx.zoom = -zoom_neg.out
            /\ event.code = "ABS_X" =>
                  StickValue(-prev.yaw_raw, -event.state) = -joy_x
            /\ event.code = "ABS_RY" =>
                  StickValue(-prev.pitch_raw, -event.state) = -joy_ry

\* C28 witness: a negative yaw sample outside the deadzone met a positive accumulator,
\* and a non-zero yaw and a non-zero pitch value were sent
C28_Witness ==
    /\ HandlerDone /\ SentThisEvent
    /\ event = AbsEv("ABS_X", -9000)
    /\ prev.yaw_smoothed > 0 /\ joystick_yaw_smoothed # 0
    /\ tx.yaw # 0 /\ tx.pitch < 0

\* alpha * c + (1 - alpha) * s_prev, alpha in tenths
Blend(alpha, c, s_prev) == TruncDiv(alpha * c + (10 - alpha) * s_prev, 10)

\* C29: after an Absolute event, an axis whose raw sample is outside its deadzone has
\* the accumulator alpha * c + (1 - alpha) * s_prev, c being the curved value of the
\* sample (the sample itself for zoom); the accumulator is not reset to 0.
C29_ResetOnlyInDeadzone ==
    HandlerDone =>
        /\ Abs(joy_x) >= JOYSTICK_DEADZONE_YAW =>
              joystick_yaw_smoothed =
                  Blend(JOYSTICK_SMOOTHING_TENTHS,
                        Sign(joy_x) * Curved(Abs(joy_x), JOYSTICK_MAX_INT),
                        prev.yaw_smoothed)
        /\ Abs(joy_ry) >= JOYSTICK_DEADZONE_PITCH =>
              joystick_pitch_smoothed =
                  Blend(JOYSTICK_SMOOTHING_TENTHS,
                        Sign(joy_ry) * Curved(Abs(joy_ry), JOYSTICK_MAX_INT),
                        prev.pitch_smoothed)
        /\ Abs(ZoomRawScaled(joy_trigger_r, joy_trigger_l)) >= JOYSTICK_DEADZONE_ZOOM =>
              joystick_zoom_smoothed =
                  Blend(ZOOM_SMOOTHING_TENTHS,
                        ZoomRawScaled(joy_trigger_r, joy_trigger_l), prev.zoom_smoothed)

\* C30: at the step where a reconnect starts its discovery the handle is empty, the
\* cache is empty, and the discovery runs with force_rescan and the 10 s budget; a
\* discovery run by a reconnect never probes an endpoint as a cache hit.
C30_ReconnectRescans ==
    /\ [][\A t \in Threads :
            (pc[t] = "rc_clear" /\ pc'[t] = "det_enum") =>
                /\ arduino' = NoSession
                /\ port_cache' = NoPort
                /\ det'[t].caller = "reconnect" /\ det'[t].force_rescan
                /\ det'[t].timeout = RECONNECT_TIMEOUT_MS
                /\ det'[t].probed = <<>>]_vars
    /\ [](\A t \in Threads :
            det[t].caller = "reconnect" =>
                \A i \in 1..Len(det[t].probed) : det[t].probed[i].how = "scan")


\* the cached endpoint was probed in the detect call d and failed
CacheProbeFailed(d) ==
    d.probed # <<>> /\ d.probed[1].how = "cache" /\ ~d.probed[1].ok

RECURSIVE SumSlices(_)
SumSlices(scans) ==
    IF scans = <<>> THEN 0 ELSE Head(scans).slice + SumSlices(Tail(scans))

\* C32: the slice of each scanned candidate is the budget that remains when its turn
\* comes, less the overhead margin, divided by the number of candidates not yet tried;
\* no probe starts once the budget has elapsed; and the slices granted in one scan
\* add up to no more than the budget.
C32_SlicesPartitionBudget ==
    LET d == det["main"]
        scans == ScanProbes(d)
    IN  /\ \A i \in 1..Len(scans) :
              /\ scans[i].slice = (d.timeout - scans[i].start - SCAN_OVERHEAD_MS)
                                      \div (Len(d.ports) - i + 1)
              /\ scans[i].start < d.timeout
        /\ SumSlices(scans) <= d.timeout


\* C33: a scanned candidate that cannot be opened is rejected at once and without a
\* probe being written; the scan then goes on to the next listed candidate, and when
\* a later candidate passes it is the one returned.
C33_UnopenableCandidateSkipped ==
    LET d == det["main"]
        scans == ScanProbes(d)
    IN  \A i \in 1..Len(scans) :
          scans[i].env = "noopen" =>
            /\ ~scans[i].ok /\ ~scans[i].wrote /\ scans[i].dur = 0
            /\ scans[i].port = d.ports[i]
            /\ i < Len(d.ports) =>
                  \/ Len(scans) > i /\ scans[i + 1].port = d.ports[i + 1]
                  \/ Len(scans) = i /\ pc["main"] = "det_probe" /\ d.idx = i + 1
            /\ \A j \in (i + 1)..Len(scans) :
                  scans[j].ok => (d.result = scans[j].port /\ d.outcome = "found")

\* C33 witness: the first candidate could not be opened, the second passed and is
\* returned
C33_Witness ==
    LET scans == ScanProbes(det["main"])
    IN  /\ pc["main"] = "startup_connect"
        /\ Len(scans) = 2
        /\ scans[1].env = "noopen" /\ scans[2].ok
        /\ det["main"].result = det["main"].ports[2]


\* C34: when the main loop has finished an axis event and the record of the last
\* transmitted values or last_send_time differs from what it was before the event, a
\* velocity command was written to the open session while that event was processed.
C34_RecordFollowsWrites ==
    (HandlerDone /\ \/ joystick_yaw_last # prev.yaw_last
                    \/ joystick_pitch_last # prev.pitch_last
                    \/ joystick_zoom_last # prev.zoom_last
                    \/ last_send_time # prev.last_send_time)
        => SentThisEvent


\* C35: when the latest axis event forced an axis's value to 0 as a deadzone entry,
\* the stored sample of that axis is inside the deadzone as the conditioner measures
\* it (the curved stick value, the scaled trigger difference).
C35_ForcedZeroOnlyInDeadzone ==
    HandlerDone =>
        /\ loop.yaw_entered =>
              Abs(apply_joystick_curve(joy_x, JOYSTICK_MAX_INT, JOYSTICK_DEADZONE_YAW))
                  < JOYSTICK_DEADZONE_YAW
        /\ loop.pitch_entered =>
              Abs(apply_joystick_curve(joy_ry, JOYSTICK_MAX_INT, JOYSTICK_DEADZONE_PITCH))
                  < JOYSTICK_DEADZONE_PITCH
        /\ loop.zoom_entered =>
              Abs(ZoomRawScaled(joy_trigger_r, joy_trigger_l)) < JOYSTICK_DEADZONE_ZOOM


\* thread t is inside a call of reconnect_serial
InReconnect(t) ==
    \/ pc[t] \in {"rc_check", "rc_close", "rc_none", "rc_clear", "rc_if", "rc_open",
                  "rc_assign"}
    \/ pc[t] \in {"det_enum", "det_probe"} /\ det[t].caller = "reconnect"

\* C36: the main thread and the reader thread are never both inside reconnect_serial.
C36_OneReconnectAtATime ==
    ~(InReconnect("main") /\ InReconnect("reader"))


\* C37: whenever transmission is disabled the handle is empty and no serial object
\* made for it is open, and no step taken while transmission is disabled opens one.
C37_DisabledHasNoSession ==
    /\ [](~ARDUINO_ENABLE_SERIAL => (arduino = NoSession /\ ser_open = {}))
    /\ [][~ARDUINO_ENABLE_SERIAL => ser_open' \subseteq ser_open]_vars


\* positions inside detect_esp32_port
DetPcs == {"det_cache", "det_enum", "det_probe"}

\* C38: at the step where a call of detect_esp32_port returns to startup or to
\* reconnect_serial, the cache holds the endpoint the call returns, and is empty when
\* the call returns none.
C38_CacheMatchesResult ==
    [][\A t \in Threads :
          (pc[t] \in DetPcs /\ pc'[t] \in {"startup_connect", "rc_if"}) =>
              port_cache' = det'[t].result]_vars


\* C39: after an axis event, the smoothed accumulator of every axis the event carried
\* no sample for is what it was before the event.
C39_OtherAccumulatorsUnchanged ==
    event.ev_type = "Absolute" =>
        /\ event.code # "ABS_X" => joystick_yaw_smoothed = prev.yaw_smoothed
        /\ event.code # "ABS_RY" => joystick_pitch_smoothed = prev.pitch_smoothed
        /\ event.code \notin {"ABS_Z", "ABS_RZ"} =>
              joystick_zoom_smoothed = prev.zoom_smoothed


\* the conditioned values of the latest event, before any forcing to zero
YawConditioned == Scale(joystick_yaw_smoothed, JOYSTICK_SCALE_YAW_TENTHS)
PitchConditioned == Scale(joystick_pitch_smoothed, JOYSTICK_SCALE_PITCH_TENTHS)
ZoomConditioned == joystick_zoom_smoothed

\* an axis's conditioned value differs from the value last transmitted before the
\* event by more than the axis's threshold
GateOpen ==
    \/ Abs(YawConditioned - prev.yaw_last) > JOYSTICK_SEND_THRESHOLD
    \/ Abs(PitchConditioned - prev.pitch_last) > JOYSTICK_SEND_THRESHOLD
    \/ Abs(ZoomConditioned - prev.zoom_last) > ZOOM_SEND_THRESHOLD

=============================================================================
